---- MODULE Spec2Model ----
(***************************************************************************)
(* Raffle ticket store of src/app.py: the tickets table, its seeding by    *)
(* init_db and the request handlers that read and mutate it.               *)
(*                                                                         *)
(* Text values (buyer names, contacts) are sequences of characters so that *)
(* str.strip() is computed and not assumed.  The form field "number" is a  *)
(* string parsed by int().  A form field that the request does not carry   *)
(* is None (request.form.get returns None), and so is an SQL NULL.         *)
(***************************************************************************)
EXTENDS Integers, Sequences, FiniteSets, TLC

VARIABLES
    tickets,          \* table tickets: number -> row
    clock,            \* latest time a handler or init_db took for a row stamp
    TOTAL_NUMBERS,    \* module-level configuration, fixed while a process runs
    ONLINE_TICKETS,
    req,              \* the request (or start-up step) handled last
    resp,             \* its response
    before,           \* status of the row that request addressed, when it arrived
    conns,            \* database connections: how many are open, and what the
                      \* request handled last did on its own
    sells             \* per server thread, the sale it has read the row for and
                      \* not yet written

vars ==
    <<tickets, clock, TOTAL_NUMBERS, ONLINE_TICKETS, req, resp, before, conns, sells>>

----------------------------------------------------------------------------
(* Bounds of the model *)

MaxTotal == 2         \* TOTAL_NUMBERS ranges over 1..MaxTotal (0..MaxTotal at start-up)
MaxClock == 1         \* utcnow() ranges over 0..MaxClock

----------------------------------------------------------------------------
(* Values *)

None == <<"None">>                 \* Python None / SQL NULL for text values
NoValue == "None"                  \* Python None for the string fields key, number, paid
ADMIN_KEY == "maria_iza"

\* what a client types into the sell form (buyer_name, buyer_contact); " " is
\* whitespace
Typed(name, contact) == [buyer_name |-> name, buyer_contact |-> contact]
BuyerForms ==
    {Typed(<<" ">>, <<" ", "1">>), Typed(<<"A">>, <<" ", "1">>),
     Typed(<<" ", "B", " ">>, None)}
PaidValues == {NoValue, "1"}
\* the key as query parameter and as form field
Sent(args_key, form_key) == [args_key |-> args_key, form_key |-> form_key]
Keys == {Sent(NoValue, NoValue), Sent("errada", ADMIN_KEY), Sent(NoValue, ADMIN_KEY)}
KeyArgs == {NoValue, ADMIN_KEY}      \* the key of a GET request
ViewKeys == KeyArgs \cup {"errada"}   \* the key of a GET request to a guarded view
\* numbers a client can send: below, inside and above every configured range
IntInputs == 0 .. (MaxTotal + 1)
NumberValues == {NoValue, "abc"} \cup {ToString(i) : i \in IntInputs}

----------------------------------------------------------------------------
(* Python helpers *)

IsSpace(c) == c = " "

RECURSIVE lstrip(_)
lstrip(s) == IF s # <<>> /\ IsSpace(Head(s)) THEN lstrip(Tail(s)) ELSE s

RECURSIVE rstrip(_)
rstrip(s) ==
    IF s # <<>> /\ IsSpace(s[Len(s)]) THEN rstrip(SubSeq(s, 1, Len(s) - 1)) ELSE s

\* str.strip()
strip(s) == rstrip(lstrip(s))

\* (request.form.get(name) or "")
or_empty(v) == IF v = None \/ v = <<>> THEN <<>> ELSE v

\* int(text) succeeds
is_int(text) == \E i \in IntInputs : ToString(i) = text

\* int(text)
int(text) == CHOOSE i \in IntInputs : ToString(i) = text

\* request.form.get("number", 0)
form_number(v) == IF v = NoValue THEN "0" ELSE v

\* 1 if request.form.get("paid") == "1" else 0
paid_flag(v) == IF v = "1" THEN 1 ELSE 0

\* request.args.get("key") or request.form.get("key")
request_key(args_key, form_key) ==
    IF args_key = NoValue \/ args_key = "" THEN form_key ELSE args_key

----------------------------------------------------------------------------
(* The tickets table *)

\* INSERT INTO tickets (number, status, paid, updated_at) VALUES (n,'free',0,now)
free_row(now) ==
    [status |-> "free", buyer_name |-> None, buyer_contact |-> None,
     paid |-> 0, updated_at |-> now]

EmptyTable == [n \in {} |-> free_row(0)]

\* init_db with off-by-one range(1, TOTAL_NUMBERS)
init_db_short(table, total, now) ==
    IF Cardinality(DOMAIN table) < total
    THEN [n \in DOMAIN table \cup (1 .. (total - 1)) |->
             IF n \in DOMAIN table THEN table[n] ELSE free_row(now)]
    ELSE table

\* init_db with INSERT OR REPLACE over the whole range
init_db_replace(table, total, now) ==
    IF Cardinality(DOMAIN table) < total
    THEN [n \in DOMAIN table \cup (1 .. total) |->
             IF n \in 1 .. total THEN free_row(now) ELSE table[n]]
    ELSE table

\* init_db(): the table after the start-up seeding
init_db(table, total, now) ==
    LET count == Cardinality(DOMAIN table) IN
    IF count < total
    THEN LET existing == DOMAIN table
             to_insert == {n \in 1 .. total : n \notin existing}
         IN  [n \in existing \cup to_insert |->
                 IF n \in existing THEN table[n] ELSE free_row(now)]
    ELSE table

----------------------------------------------------------------------------
(* Database connections                                                    *)
(* What a handler does on its connection is a sequence of events.          *)

\* with get_conn() as conn: the connection's own context manager ends the
\* transaction and leaves the connection open
closing_forgotten(block) == <<"connect">> \o block

\* with closing(get_conn()) as conn: sqlite3.connect, the block, then
\* conn.close() whether the block raised or not
closing(block) == <<"connect">> \o block \o <<"close">>

\* with conn: commit when the block ends, rollback when it raised
transaction(block, raised) == block \o <<IF raised THEN "rollback" ELSE "commit">>

\* connections a sequence of events leaves open
RECURSIVE left_open(_)
left_open(events) ==
    IF events = <<>> THEN 0
    ELSE left_open(Tail(events))
             + (IF Head(events) = "connect" THEN 1
                ELSE IF Head(events) = "close" THEN -1 ELSE 0)

\* what a handler does on its connection, and the connections that leaves open
Scoped(events) == [left_open |-> left_open(events), log |-> events]

\* a handler that ends before it opens a connection
no_connection == Scoped(<<>>)
\* index and the other views: with closing(get_conn()) as conn
read_only == Scoped(closing(<<"select">>))
\* unlock, toggle_paid: with closing(get_conn()) as conn, conn
written == Scoped(closing(transaction(<<"update">>, FALSE)))
\* sell: the row is free
sold_now == Scoped(closing(transaction(<<"select", "update">>, FALSE)))
\* sell: abort(404), abort(400) inside the with block
sale_aborted == Scoped(closing(transaction(<<"select">>, TRUE)))

\* the connections after a request that did this on its connection
Connections(scoped) == [open |-> conns.open + scoped.left_open, log |-> scoped.log]

NoConnections == [open |-> 0, log |-> <<>>]

\* the threads of the server that handle requests at the same time
Threads == {"t1", "t2"}

\* no thread is between the SELECT and the UPDATE of a sale
NoSells == {}

----------------------------------------------------------------------------
(* Statements of the request handlers *)

\* sell's validation without the upper range test
invalid_sale_no_upper(number, total, buyer_name) ==
    number < 1 \/ buyer_name = <<>>

\* sell's validation without the test of the name
invalid_sale_no_name(number, total, buyer_name) == number < 1 \/ number > total

\* sell: number < 1 or number > TOTAL_NUMBERS or not buyer_name
invalid_sale(number, total, buyer_name) ==
    number < 1 \/ number > total \/ buyer_name = <<>>

\* unlock, toggle_paid: number < 1 or number > TOTAL_NUMBERS
invalid_number(number, total) == number < 1 \/ number > total

\* the lenient variant: a sold row is sold again
already_sold_lenient(row) == FALSE

\* sell: row["status"] == "sold"
already_sold(row) == row.status = "sold"

\* UPDATE ... WHERE number=? applied to a table: only an existing row changes
update_where(table, number, row) ==
    IF number \in DOMAIN table THEN [table EXCEPT ![number] = row] ELSE table

\* sell's UPDATE without its WHERE clause
sell_update_all(table, number, buyer_name, buyer_contact, paid, now) ==
    [n \in DOMAIN table |->
        [status |-> "sold", buyer_name |-> buyer_name,
         buyer_contact |-> buyer_contact, paid |-> paid, updated_at |-> now]]

\* UPDATE tickets SET status='sold', buyer_name=?, buyer_contact=?, paid=?,
\* updated_at=? WHERE number=?
sell_update(table, number, buyer_name, buyer_contact, paid, now) ==
    update_where(table, number,
        [status |-> "sold", buyer_name |-> buyer_name,
         buyer_contact |-> buyer_contact, paid |-> paid, updated_at |-> now])

\* unlock's UPDATE leaving the buyer in place
unlock_update_keep(table, number, now) ==
    IF number \in DOMAIN table
    THEN [table EXCEPT ![number].status = "free", ![number].updated_at = now]
    ELSE table

\* unlock as DELETE FROM tickets WHERE number=?
unlock_update_delete(table, number, now) ==
    [n \in DOMAIN table \ {number} |-> table[n]]

\* unlock's UPDATE without its WHERE clause
unlock_update_all(table, number, now) == [n \in DOMAIN table |-> free_row(now)]

\* UPDATE tickets SET status='free', buyer_name=NULL, buyer_contact=NULL, paid=0,
\* updated_at=? WHERE number=?
unlock_update(table, number, now) == update_where(table, number, free_row(now))

\* toggle_paid flipping the stored flag instead of storing the given one
toggle_paid_update_flip(table, number, new_paid, now) ==
    IF number \in DOMAIN table
    THEN [table EXCEPT ![number].paid = 1 - @, ![number].updated_at = now]
    ELSE table

\* UPDATE tickets SET paid=?, updated_at=? WHERE number=?
toggle_paid_update(table, number, new_paid, now) ==
    IF number \in DOMAIN table
    THEN [table EXCEPT ![number].paid = new_paid, ![number].updated_at = now]
    ELSE table

\* SELECT number, status FROM tickets ORDER BY number
RECURSIVE order_by_number(_, _)
order_by_number(table, numbers) ==
    IF numbers = {} THEN <<>>
    ELSE LET m == CHOOSE n \in numbers : \A k \in numbers : n <= k
         IN  <<[number |-> m, status |-> table[m].status]>>
                 \o order_by_number(table, numbers \ {m})

select_number_status(table) == order_by_number(table, DOMAIN table)

\* index counting the paid rows as sold
sold_count_paid(table, rows) ==
    Cardinality({i \in 1 .. Len(rows) : table[rows[i].number].paid = 1})

\* index: sum(1 for r in rows if r[1] == 'sold')
sold_count_of(table, rows) ==
    Cardinality({i \in 1 .. Len(rows) : rows[i].status = "sold"})

\* index: [r for r in rows if r["number"] <= ONLINE_TICKETS]
online_rows(rows, online) == SelectSeq(rows, LAMBDA r : r.number <= online)

\* the numbers of a set in ascending order (ORDER BY number)
RECURSIVE ascending(_)
ascending(numbers) ==
    IF numbers = {} THEN <<>>
    ELSE LET m == CHOOSE n \in numbers : \A k \in numbers : n <= k
         IN  <<m>> \o ascending(numbers \ {m})

\* WHERE number BETWEEN ? AND ? ORDER BY number
between(table, first, last) == ascending({n \in DOMAIN table : first <= n /\ n <= last})

\* SELECT number, status, buyer_name, paid FROM tickets WHERE number BETWEEN ? AND ?
\* ORDER BY number
select_printable(table, first, last) ==
    LET numbers == between(table, first, last)
    IN  [i \in 1 .. Len(numbers) |->
            [number |-> numbers[i], status |-> table[numbers[i]].status,
             buyer_name |-> table[numbers[i]].buyer_name,
             paid |-> table[numbers[i]].paid]]

\* SELECT number FROM tickets WHERE number BETWEEN ? AND ? ORDER BY number
select_number(table, first, last) ==
    LET numbers == between(table, first, last)
    IN  [i \in 1 .. Len(numbers) |-> [number |-> numbers[i]]]

\* ORDER BY updated_at: the orders in which the rows of the given numbers may
\* come, descending (sign = -1) or ascending (sign = 1); rows of equal
\* updated_at come in any order
RECURSIVE order_by_updated_at(_, _, _)
order_by_updated_at(table, numbers, sign) ==
    IF numbers = {} THEN {<<>>}
    ELSE LET firsts == {n \in numbers : \A k \in numbers :
                           sign * table[n].updated_at <= sign * table[k].updated_at}
         IN  UNION {{<<n>> \o rest :
                        rest \in order_by_updated_at(table, numbers \ {n}, sign)} :
                    n \in firsts}

buyer_row(table, n) ==
    [number |-> n, buyer_name |-> table[n].buyer_name,
     buyer_contact |-> table[n].buyer_contact, paid |-> table[n].paid,
     updated_at |-> table[n].updated_at]

\* the report query with ORDER BY updated_at ASC
select_buyers_asc(table) ==
    LET sold == {n \in DOMAIN table : table[n].status = "sold"}
    IN  {[i \in DOMAIN s |-> buyer_row(table, s[i])] :
            s \in order_by_updated_at(table, sold, 1)}

\* SELECT number, buyer_name, buyer_contact, paid, updated_at FROM tickets
\* WHERE status='sold' ORDER BY updated_at DESC: every result the statement
\* allows, rows of equal updated_at coming in any order
select_buyers(table) ==
    LET sold == {n \in DOMAIN table : table[n].status = "sold"}
    IN  {[i \in DOMAIN s |-> buyer_row(table, s[i])] :
            s \in order_by_updated_at(table, sold, -1)}

----------------------------------------------------------------------------
(* Templates: what a page shows of the rows it is given *)

\* row['x'] or '-'
or_dash(v) == IF v = None \/ v = <<>> THEN <<"-">> ELSE v

\* ADMIN_TMPL, the printable section: number, Vendido/Livre, Pago/A receber
admin_rows(rows) ==
    [i \in DOMAIN rows |->
        [number |-> rows[i].number, sold |-> (rows[i].status = "sold"),
         paid |-> (rows[i].paid # 0)]]

\* BUYERS_TMPL: number, name, contact, time and the payment switch
buyers_rows(rows) ==
    [i \in DOMAIN rows |->
        [number |-> rows[i].number, buyer_name |-> or_dash(rows[i].buyer_name),
         buyer_contact |-> or_dash(rows[i].buyer_contact),
         updated_at |-> rows[i].updated_at, paid |-> (rows[i].paid # 0)]]

\* text[:n]
truncated(text, n) == IF Len(text) > n THEN SubSeq(text, 1, n) ELSE text

\* build_buyers_pdf: one line per row with number, name, contact, time, Pago/Pendente
build_buyers_pdf(rows) ==
    [i \in DOMAIN rows |->
        [number |-> rows[i].number,
         buyer_name |-> truncated(or_dash(rows[i].buyer_name), 40),
         buyer_contact |-> truncated(or_dash(rows[i].buyer_contact), 25),
         updated_at |-> rows[i].updated_at, paid |-> (rows[i].paid # 0)]]

\* PRINT_TICKETS_TMPL: one slip per row, with its number
print_slips(rows) == [i \in DOMAIN rows |-> rows[i].number]

\* PRINTABLE_PUBLIC_TMPL: number, Vendido/Livre, Pago/A receber and, for a row
\* that has one, the line "Nome: ..."
printable_public_rows(rows) ==
    [i \in DOMAIN rows |->
        [number |-> rows[i].number, sold |-> (rows[i].status = "sold"),
         paid |-> (rows[i].paid # 0),
         name_line |-> IF rows[i].buyer_name = None \/ rows[i].buyer_name = <<>>
                       THEN <<>> ELSE rows[i].buyer_name]]

----------------------------------------------------------------------------
(* Requests and responses *)

Request(op, args_key, form_key, number, buyer_name, buyer_contact, paid) ==
    [op |-> op, args_key |-> args_key, form_key |-> form_key, number |-> number,
     buyer_name |-> buyer_name, buyer_contact |-> buyer_contact, paid |-> paid]

NoCtx == [total |-> 0, sold_count |-> 0, free_count |-> 0, tickets |-> <<>>,
          admin |-> FALSE]

Response(code, description, location) ==
    [code |-> code, description |-> description, location |-> location,
     ctx |-> NoCtx]

Forbidden == Response(403, "", "")
BadRequest == Response(400, "", "")
\* abort(400, description=...), the description in ASCII
AlreadySold == Response(400, "Este numero ja foi vendido. Escolha outro.", "")
NotFound == Response(404, "", "")
ServerError == Response(500, "", "")
Redirect(to) == Response(302, "", to)

\* _require_key looking at the form field only
forbidden_form_only(args_key, form_key) == form_key # ADMIN_KEY

\* _require_key aborts
forbidden(args_key, form_key) == request_key(args_key, form_key) # ADMIN_KEY

\* datetime.utcnow(): the clock does not run backwards and may not have advanced
Utcnow == {t \in {clock, clock + 1} : t <= MaxClock}

Config == UNCHANGED <<TOTAL_NUMBERS, ONLINE_TICKETS>>

\* no row: the request ended before it named one, or the table has none
NoRow == "none"

\* SELECT status FROM tickets WHERE number=? (fetchone)
select_status(table, number) ==
    IF number \in DOMAIN table THEN table[number].status ELSE NoRow

\* SELECT status, paid FROM tickets WHERE number=? (fetchone)
select_status_paid(table, number) ==
    IF number \in DOMAIN table
    THEN [status |-> table[number].status, paid |-> table[number].paid]
    ELSE [status |-> NoRow, paid |-> 0]

\* a handler that ends before it touches the table or reads the clock
Reply(request, response) ==
    /\ req' = request
    /\ resp' = response
    /\ before' = NoRow
    /\ conns' = Connections(no_connection)
    /\ UNCHANGED <<tickets, clock>>
    /\ Config
    /\ UNCHANGED sells

----------------------------------------------------------------------------
(* Request handlers                                                         *)
(* A form field is drawn where the handler's outcome first depends on it;  *)
(* a field the outcome does not depend on is recorded as not sent.         *)

\* POST /admin/sell
sell ==
    \E k \in Keys :
        IF forbidden(k.args_key, k.form_key)
        THEN Reply(Request("sell", k.args_key, k.form_key, NoValue, None, None,
                           NoValue), Forbidden)
        ELSE \E num \in NumberValues :
            IF ~is_int(form_number(num))
            THEN Reply(Request("sell", k.args_key, k.form_key, num, None, None,
                               NoValue), ServerError)
            ELSE LET number == int(form_number(num)) IN
                IF \A f \in BuyerForms :
                       invalid_sale(number, TOTAL_NUMBERS, strip(or_empty(f.buyer_name)))
                THEN \* the number decides, whatever the name: abort(400)
                     Reply(Request("sell", k.args_key, k.form_key, num, None, None,
                                   NoValue), BadRequest)
                ELSE \E f \in BuyerForms :
                    LET buyer_name == strip(or_empty(f.buyer_name))
                        buyer_contact == strip(or_empty(f.buyer_contact))
                        request == Request("sell", k.args_key, k.form_key, num,
                                           f.buyer_name, f.buyer_contact, NoValue)
                    IN  IF invalid_sale(number, TOTAL_NUMBERS, buyer_name)
                        THEN Reply(request, BadRequest)
                        ELSE \E now \in Utcnow :
                            /\ clock' = now
                            /\ Config
                            /\ UNCHANGED sells
                            /\ before' = select_status(tickets, number)
                            /\ IF number \notin DOMAIN tickets
                               THEN /\ req' = request
                                    /\ resp' = NotFound
                                    /\ conns' = Connections(sale_aborted)
                                    /\ UNCHANGED tickets
                               ELSE IF already_sold(tickets[number])
                               THEN /\ req' = request
                                    /\ resp' = AlreadySold
                                    /\ conns' = Connections(sale_aborted)
                                    /\ UNCHANGED tickets
                               ELSE \E pd \in PaidValues :
                                    /\ req' = [request EXCEPT !.paid = pd]
                                    /\ tickets' = sell_update(tickets, number,
                                           buyer_name, buyer_contact, paid_flag(pd), now)
                                    /\ conns' = Connections(sold_now)
                                    /\ resp' = Redirect("index")

\* POST /admin/unlock
unlock ==
    \E k \in Keys :
        IF forbidden(k.args_key, k.form_key)
        THEN Reply(Request("unlock", k.args_key, k.form_key, NoValue, None, None,
                           NoValue), Forbidden)
        ELSE \E num \in NumberValues :
            LET request == Request("unlock", k.args_key, k.form_key, num, None, None,
                                   NoValue)
            IN  IF ~is_int(form_number(num))
                THEN Reply(request, ServerError)
                ELSE LET number == int(form_number(num)) IN
                    IF invalid_number(number, TOTAL_NUMBERS)
                    THEN Reply(request, BadRequest)
                    ELSE \E now \in Utcnow :
                        /\ clock' = now
                        /\ req' = request
                        /\ Config
                        /\ UNCHANGED sells
                        /\ before' = select_status(tickets, number)
                        /\ tickets' = unlock_update(tickets, number, now)
                        /\ conns' = Connections(written)
                        /\ resp' = Redirect("index")

\* POST /admin/toggle-paid
toggle_paid ==
    \E k \in Keys :
        IF forbidden(k.args_key, k.form_key)
        THEN Reply(Request("toggle_paid", k.args_key, k.form_key, NoValue, None, None,
                           NoValue), Forbidden)
        ELSE \E num \in NumberValues :
            IF ~is_int(form_number(num))
            THEN Reply(Request("toggle_paid", k.args_key, k.form_key, num, None, None,
                               NoValue), ServerError)
            ELSE LET number == int(form_number(num)) IN
                IF invalid_number(number, TOTAL_NUMBERS)
                THEN Reply(Request("toggle_paid", k.args_key, k.form_key, num, None,
                                   None, NoValue), BadRequest)
                ELSE \E pd \in PaidValues, now \in Utcnow :
                    /\ clock' = now
                    /\ req' = Request("toggle_paid", k.args_key, k.form_key, num, None,
                                      None, pd)
                    /\ Config
                    /\ UNCHANGED sells
                    /\ before' = select_status(tickets, number)
                    /\ tickets' = toggle_paid_update(tickets, number, paid_flag(pd), now)
                    /\ conns' = Connections(written)
                    /\ resp' = Redirect("buyers")

\* GET /
index ==
    \E args_key \in KeyArgs :
        LET rows == select_number_status(tickets)
            sold_count == sold_count_of(tickets, rows)
            free_count == Len(rows) - sold_count
        IN  /\ req' = Request("index", args_key, NoValue, NoValue, None, None, NoValue)
            /\ resp' = [code |-> 200, description |-> "", location |-> "",
                        ctx |-> [total |-> Len(rows), sold_count |-> sold_count,
                                 free_count |-> free_count,
                                 tickets |-> online_rows(rows, ONLINE_TICKETS),
                                 admin |-> (args_key = ADMIN_KEY)]]
            /\ before' = NoRow
            /\ conns' = Connections(read_only)
            /\ UNCHANGED <<tickets, clock>>
            /\ Config
            /\ UNCHANGED sells

----------------------------------------------------------------------------
(* Views *)

\* the printable range starting at the online limit itself
PRINTABLE_START_at_limit == ONLINE_TICKETS

PRINTABLE_START == ONLINE_TICKETS + 1

\* PRINTABLE_START if PRINTABLE_START <= TOTAL_NUMBERS else None, as the page shows it
printable_start == 
    IF PRINTABLE_START <= TOTAL_NUMBERS THEN ToString(PRINTABLE_START) ELSE NoValue

\* render_template_string(...), jsonify(...), Response(pdf_bytes)
Page(ctx) == [code |-> 200, description |-> "", location |-> "", ctx |-> ctx]
Json(code, body) == [code |-> code, description |-> "", location |-> "", ctx |-> body]

\* a handler that reads the table at most
View(request, response, scoped) ==
    /\ req' = request
    /\ resp' = response
    /\ before' = NoRow
    /\ conns' = Connections(scoped)
    /\ UNCHANGED <<tickets, clock>>
    /\ Config
    /\ UNCHANGED sells

Get(op, args_key, number) == Request(op, args_key, NoValue, number, None, None, NoValue)

\* the connection of admin, tickets_print and printable_public
printable_events ==
    IF PRINTABLE_START <= TOTAL_NUMBERS THEN read_only ELSE no_connection

\* GET /admin
admin ==
    \E args_key \in ViewKeys :
        IF forbidden(args_key, NoValue)
        THEN Reply(Get("admin", args_key, NoValue), Forbidden)
        ELSE LET printable_rows ==
                     IF PRINTABLE_START <= TOTAL_NUMBERS
                     THEN select_printable(tickets, PRINTABLE_START, TOTAL_NUMBERS)
                     ELSE <<>>
             IN  View(Get("admin", args_key, NoValue),
                      Page([key |-> request_key(args_key, NoValue),
                            total |-> TOTAL_NUMBERS,
                            printable_start |-> printable_start,
                            printable_end |-> TOTAL_NUMBERS,
                            printable_rows |-> admin_rows(printable_rows)]),
                      printable_events)

\* GET /buyers
buyers ==
    \E args_key \in ViewKeys :
        IF forbidden(args_key, NoValue)
        THEN Reply(Get("buyers", args_key, NoValue), Forbidden)
        ELSE \E rows \in select_buyers(tickets) :
                View(Get("buyers", args_key, NoValue),
                     Page([buyers |-> buyers_rows(rows),
                           key |-> request_key(args_key, NoValue)]),
                     read_only)

\* GET /buyers.pdf
buyers_pdf ==
    \E args_key \in ViewKeys :
        IF forbidden(args_key, NoValue)
        THEN Reply(Get("buyers_pdf", args_key, NoValue), Forbidden)
        ELSE \E rows \in select_buyers(tickets) :
                View(Get("buyers_pdf", args_key, NoValue),
                     Page([pdf |-> build_buyers_pdf(rows)]),
                     read_only)

\* GET /tickets/print
tickets_print ==
    \E args_key \in ViewKeys :
        IF forbidden(args_key, NoValue)
        THEN Reply(Get("tickets_print", args_key, NoValue), Forbidden)
        ELSE LET printable_rows ==
                     IF PRINTABLE_START > TOTAL_NUMBERS THEN <<>>
                     ELSE select_number(tickets, PRINTABLE_START, TOTAL_NUMBERS)
             IN  View(Get("tickets_print", args_key, NoValue),
                      Page([tickets |-> print_slips(printable_rows),
                            printable_start |-> ToString(PRINTABLE_START),
                            printable_end |-> TOTAL_NUMBERS]),
                      printable_events)

\* the answer of ticket_status on a table
ticket_status_json(table, number) ==
    IF invalid_number(number, TOTAL_NUMBERS) THEN Json(404, [error |-> "invalid"])
    ELSE LET row == select_status_paid(table, number) IN
         IF row.status = NoRow THEN Json(404, [error |-> "not_found"])
         ELSE Json(200, [status |-> row.status, paid |-> row.paid])

\* GET /tickets/status/<int:number>
ticket_status ==
    \E number \in IntInputs :
        View(Get("ticket_status", NoValue, ToString(number)),
             ticket_status_json(tickets, number),
             IF invalid_number(number, TOTAL_NUMBERS) THEN no_connection
             ELSE read_only)

\* the page of printable_public on a table
printable_public_page(table, args_key) ==
    LET key == IF args_key = ADMIN_KEY THEN args_key ELSE ""
        printable_rows ==
            IF PRINTABLE_START > TOTAL_NUMBERS THEN <<>>
            ELSE select_printable(table, PRINTABLE_START, TOTAL_NUMBERS)
    IN  Page([tickets |-> printable_public_rows(printable_rows),
              printable_start |-> printable_start,
              printable_end |-> TOTAL_NUMBERS,
              admin |-> (key = ADMIN_KEY),
              key |-> key])

\* GET /impressos
printable_public ==
    \E args_key \in ViewKeys :
        View(Get("printable_public", args_key, NoValue),
             printable_public_page(tickets, args_key),
             printable_events)

----------------------------------------------------------------------------
(* Process start *)

min(a, b) == IF a <= b THEN a ELSE b

Totals == 1 .. MaxTotal                    \* int(os.getenv("TOTAL_NUMBERS"))
\* int(os.getenv("ONLINE_TICKETS")): part of the numbers is sold on paper
OnlineSettings == {MaxTotal - 1}

Started == Request("import", NoValue, NoValue, NoValue, None, None, NoValue)
Rerun == Request("main", NoValue, NoValue, NoValue, None, None, NoValue)
NotStarted == Request("none", NoValue, NoValue, NoValue, None, None, NoValue)
NoResponse == Response(0, "", "")

\* The application serving requests on a database file that did not exist
\* before the module was imported.
Init ==
    \E total \in Totals, online \in OnlineSettings :
        /\ TOTAL_NUMBERS = total
        /\ ONLINE_TICKETS = min(online, total)
        /\ clock = 0
        /\ tickets = init_db(EmptyTable, total, 0)
        /\ req = Started
        /\ resp = NoResponse
        /\ before = NoRow
        /\ conns = NoConnections
        /\ sells = NoSells

Next == sell \/ unlock \/ toggle_paid \/ index

Spec == Init /\ [][Next]_vars

----------------------------------------------------------------------------
(* Start-up on a database file left by earlier processes *)

\* rows an earlier deployment may have left, all written at time 0
PriorRows ==
    {free_row(0),
     [status |-> "sold", buyer_name |-> <<"A">>, buyer_contact |-> <<"1">>,
      paid |-> 1, updated_at |-> 0],
     [status |-> "sold", buyer_name |-> <<"B">>, buyer_contact |-> <<>>,
      paid |-> 0, updated_at |-> 0]}

\* numbers an earlier deployment may have used: its total may have been larger
PriorNumbers == 1 .. (MaxTotal + 1)

PriorTables == UNION {[S -> PriorRows] : S \in SUBSET PriorNumbers}

InitDeploy ==
    /\ tickets \in PriorTables
    /\ clock = 0
    /\ TOTAL_NUMBERS = 0
    /\ ONLINE_TICKETS = 0
    /\ req = NotStarted
    /\ resp = NoResponse
    /\ before = NoRow
    /\ conns = NoConnections
    /\ sells = NoSells

\* init_db's statements on its connection
init_db_events(count, total) ==
    IF count < total THEN <<"create", "select", "select", "insert">>
    ELSE <<"create", "select">>

\* init_db takes the time only when it has rows to insert
SeedingTime(total) == IF Cardinality(DOMAIN tickets) < total THEN Utcnow ELSE {clock}

\* the module is imported by a new process: configuration, then init_db()
import_module ==
    \E total \in 0 .. MaxTotal, online \in OnlineSettings :
      \E now \in SeedingTime(total) :
        /\ TOTAL_NUMBERS' = total
        /\ ONLINE_TICKETS' = min(online, total)
        /\ clock' = now
        /\ tickets' = init_db(tickets, total, now)
        /\ conns' = Connections(Scoped(closing(transaction(
               init_db_events(Cardinality(DOMAIN tickets), total), FALSE))))
        /\ req' = Started
        /\ UNCHANGED <<resp, before, sells>>

\* run as a script: init_db() once more before the server starts
main ==
    /\ req.op \in {"import", "main"}
    /\ \E now \in SeedingTime(TOTAL_NUMBERS) :
        /\ clock' = now
        /\ tickets' = init_db(tickets, TOTAL_NUMBERS, now)
        /\ conns' = Connections(Scoped(closing(transaction(
               init_db_events(Cardinality(DOMAIN tickets), TOTAL_NUMBERS), FALSE))))
        /\ req' = Rerun
        /\ UNCHANGED <<resp, before>>
        /\ Config
        /\ UNCHANGED sells

NextDeploy == import_module \/ main

SpecDeploy == InitDeploy /\ [][NextDeploy]_vars

----------------------------------------------------------------------------
(* The views of a store that has served requests *)

Sold(buyer_name, buyer_contact, paid, now) ==
    [status |-> "sold", buyer_name |-> buyer_name, buyer_contact |-> buyer_contact,
     paid |-> paid, updated_at |-> now]

\* rows as init_db, sell and unlock leave them, at any time of the clock
StoredRows ==
    UNION {{free_row(t), Sold(<<"A">>, <<"1">>, 1, t), Sold(<<"B">>, <<>>, 0, t)} :
              t \in 0 .. MaxClock}

\* int(os.getenv("ONLINE_TICKETS")): nothing online, a part, all, more than all
OnlineLimits == 0 .. (MaxTotal + 1)

\* A process whose table holds, for every number of the range, a row written by
\* some earlier request; only views are requested.
InitViews ==
    \E total \in Totals, online \in OnlineLimits :
        /\ TOTAL_NUMBERS = total
        /\ ONLINE_TICKETS = min(online, total)
        /\ clock = MaxClock
        /\ tickets \in [1 .. total -> StoredRows]
        /\ req = Started
        /\ resp = NoResponse
        /\ before = NoRow
        /\ conns = NoConnections
        /\ sells = NoSells

NextViews == index \/ admin \/ tickets_print \/ ticket_status \/ printable_public

SpecViews == InitViews /\ [][NextViews]_vars

----------------------------------------------------------------------------
(* The buyers report between sales, releases and payment marks             *)
(* Only the requests answered with a page or a redirect are followed: any  *)
(* other request leaves every row as it was.                               *)

Accepted(response) == response.code \in {200, 302}

NextReport ==
    \/ sell /\ Accepted(resp')
    \/ unlock /\ Accepted(resp')
    \/ toggle_paid /\ Accepted(resp')
    \/ buyers /\ Accepted(resp')
    \/ buyers_pdf /\ Accepted(resp')

SpecReport == Init /\ [][NextReport]_vars

----------------------------------------------------------------------------
(* Every route of a process started on a database file of earlier processes *)

\* free rows an earlier deployment may have left, for any of its numbers
LegacyTables == {[n \in S |-> free_row(0)] : S \in SUBSET PriorNumbers}

\* The module has been imported on a file holding a legacy table: init_db()
\* has filled it up, or found rows enough and inserted none.  The process
\* starts at the last time of the clock, so every stamp it writes is the same:
\* what the routes answer and do on their connections depends on no stamp.
InitServe ==
    \E prior \in LegacyTables, total \in Totals, online \in OnlineSettings :
        /\ TOTAL_NUMBERS = total
        /\ ONLINE_TICKETS = min(online, total)
        /\ clock = MaxClock
        /\ tickets = init_db(prior, total, MaxClock)
        /\ req = Started
        /\ resp = NoResponse
        /\ before = NoRow
        /\ conns = NoConnections
        /\ sells = NoSells

NextServe ==
    \/ sell \/ unlock \/ toggle_paid
    \/ index \/ admin \/ buyers \/ buyers_pdf \/ tickets_print \/ ticket_status
    \/ printable_public

SpecServe == InitServe /\ [][NextServe]_vars

----------------------------------------------------------------------------
(* Sales handled at the same time                                          *)
(* Each thread runs sell on a connection of its own; the SELECT and the    *)
(* UPDATE are two statements, and the other thread may run between them.   *)

\* sell up to the SELECT, for a request that passed _require_key and the
\* validation: the time is taken, the connection opened and the row read
sell_select(t) ==
    /\ \A s \in sells : s.thread # t
    /\ \E k \in Keys, num \in NumberValues, f \in BuyerForms, now \in Utcnow :
        /\ ~forbidden(k.args_key, k.form_key)
        /\ is_int(form_number(num))
        /\ ~invalid_sale(int(form_number(num)), TOTAL_NUMBERS,
                         strip(or_empty(f.buyer_name)))
        /\ clock' = now
        /\ sells' = sells \cup
              {[thread |-> t, args_key |-> k.args_key, form_key |-> k.form_key,
                form_number |-> num,
                number |-> int(form_number(num)),
                buyer_name |-> f.buyer_name,
                buyer_contact |-> f.buyer_contact,
                now |-> now,
                row |-> select_status(tickets, int(form_number(num)))]}
        /\ conns' = Connections(Scoped(<<"connect", "select">>))
        /\ UNCHANGED <<tickets, req, resp, before>>
        /\ Config

\* sell from the row it has read to its response
sell_update_or_abort(t) ==
    \E s \in sells :
    /\ s.thread = t
    /\ LET buyer_name == strip(or_empty(s.buyer_name))
           buyer_contact == strip(or_empty(s.buyer_contact))
           request == Request("sell", s.args_key, s.form_key, s.form_number,
                              s.buyer_name, s.buyer_contact, NoValue)
       IN  /\ before' = s.row
           /\ sells' = sells \ {s}
           /\ UNCHANGED clock
           /\ Config
           /\ IF s.row = NoRow
              THEN /\ req' = request
                   /\ resp' = NotFound
                   /\ conns' = Connections(Scoped(<<"rollback", "close">>))
                   /\ UNCHANGED tickets
              ELSE IF already_sold([status |-> s.row])
              THEN /\ req' = request
                   /\ resp' = AlreadySold
                   /\ conns' = Connections(Scoped(<<"rollback", "close">>))
                   /\ UNCHANGED tickets
              ELSE \E pd \in PaidValues :
                   /\ req' = [request EXCEPT !.paid = pd]
                   /\ tickets' = sell_update(tickets, s.number, buyer_name,
                                             buyer_contact, paid_flag(pd), s.now)
                   /\ conns' = Connections(Scoped(<<"update", "commit", "close">>))
                   /\ resp' = Redirect("index")

NextRace == \E t \in Threads : sell_select(t) \/ sell_update_or_abort(t)

SpecRace == Init /\ [][NextRace]_vars

----------------------------------------------------------------------------
(* What a request asked for, read back from req *)

\* the request passed _require_key
Authorized(r) == ~forbidden(r.args_key, r.form_key)

\* the request carried a number that int() accepts
Numbered(r) == is_int(form_number(r.number))

\* the number the request named
NumberOf(r) == int(form_number(r.number))

\* an authorized request of the given kind naming a number of [1, TOTAL_NUMBERS]
InRange(r, op) ==
    /\ r.op = op
    /\ Authorized(r)
    /\ Numbered(r)
    /\ NumberOf(r) \in 1 .. TOTAL_NUMBERS

\* the text of a form field, None when the field was not sent
Text(v) == IF v = None THEN <<>> ELSE v

Cleared(row) ==
    row.status = "free" /\ row.buyer_name = None /\ row.buyer_contact = None
        /\ row.paid = 0

----------------------------------------------------------------------------
(* C1: a sell request for a number that is sold is answered 400 with the   *)
(* already-sold message, and the row keeps its status, buyer name, buyer   *)
(* contact and paid flag.                                                  *)
ResellRejected ==
    [][(InRange(req', "sell") /\ Text(req'.buyer_name) # <<>>
            /\ strip(req'.buyer_name) # <<>>
            /\ tickets[NumberOf(req')].status = "sold")
        => LET n == NumberOf(req') IN
           /\ resp' = AlreadySold
           /\ tickets'[n].status = "sold"
           /\ tickets'[n].buyer_name = tickets[n].buyer_name
           /\ tickets'[n].buyer_contact = tickets[n].buyer_contact
           /\ tickets'[n].paid = tickets[n].paid]_vars

\* a sale in another buyer's name was refused and the first buyer is still stored
ResellRejectedWitness ==
    /\ InRange(req, "sell")
    /\ resp = AlreadySold
    /\ before = "sold"
    /\ tickets[NumberOf(req)].status = "sold"
    /\ tickets[NumberOf(req)].buyer_name # strip(req.buyer_name)
    /\ tickets[NumberOf(req)].buyer_contact # strip(or_empty(req.buyer_contact))

(* C2: every free row has no buyer name, no buyer contact and paid = 0.    *)
FreeIsCleared ==
    \A n \in DOMAIN tickets : tickets[n].status = "free" => Cleared(tickets[n])

(* C3 as stated: an authorized sell of a free number of the range with a   *)
(* non-empty name stores the name and the contact as given, the paid flag  *)
(* and the time, and changes no other row.                                 *)
SaleStoresInput ==
    [][(InRange(req', "sell") /\ Text(req'.buyer_name) # <<>>
            /\ tickets[NumberOf(req')].status = "free")
        => LET n == NumberOf(req') IN
           /\ tickets'[n] = [status |-> "sold", buyer_name |-> req'.buyer_name,
                             buyer_contact |-> req'.buyer_contact,
                             paid |-> paid_flag(req'.paid), updated_at |-> clock']
           /\ \A m \in DOMAIN tickets \ {n} : tickets'[m] = tickets[m]]_vars

(* C3 amended: an authorized sell of a free number of the range with a     *)
(* name that is not blank is answered with the redirect and stores the     *)
(* name and the contact without their surrounding whitespace (the empty    *)
(* text for a contact not sent), the paid flag and the time, and changes   *)
(* no other row and adds none.                                             *)
SaleStoresTrimmed ==
    [][(InRange(req', "sell") /\ Text(req'.buyer_name) # <<>>
            /\ strip(req'.buyer_name) # <<>>
            /\ tickets[NumberOf(req')].status = "free")
        => LET n == NumberOf(req') IN
           /\ resp' = Redirect("index")
           /\ tickets'[n] = [status |-> "sold",
                             buyer_name |-> strip(req'.buyer_name),
                             buyer_contact |-> strip(Text(req'.buyer_contact)),
                             paid |-> paid_flag(req'.paid), updated_at |-> clock']
           /\ DOMAIN tickets' = DOMAIN tickets
           /\ \A m \in DOMAIN tickets \ {n} : tickets'[m] = tickets[m]]_vars

\* a paid sale typed with surrounding blanks went through at a later time while
\* another number stayed as it was seeded
SaleStoresTrimmedWitness ==
    /\ InRange(req, "sell")
    /\ resp = Redirect("index")
    /\ before = "free"
    /\ req.buyer_name = <<" ", "B", " ">>
    /\ req.paid = "1"
    /\ tickets[NumberOf(req)].buyer_name = <<"B">>
    /\ tickets[NumberOf(req)].paid = 1
    /\ tickets[NumberOf(req)].updated_at = 1
    /\ \E m \in DOMAIN tickets : m # NumberOf(req) /\ tickets[m] = free_row(0)

(* C4: a successful sell of a number followed by release of the same       *)
(* number leaves the row equal to a freshly seeded one in every field but  *)
(* updated_at.                                                             *)
SellReleaseRoundTrip ==
    [][(InRange(req, "sell") /\ resp = Redirect("index")
            /\ InRange(req', "unlock") /\ NumberOf(req') = NumberOf(req))
        => LET n == NumberOf(req') IN
           /\ resp' = Redirect("index")
           /\ Cleared(tickets'[n])
           /\ [tickets'[n] EXCEPT !.updated_at = 0] = free_row(0)]_vars

\* a row that was sold has been released
SellReleaseRoundTripWitness ==
    /\ InRange(req, "unlock")
    /\ resp = Redirect("index")
    /\ before = "sold"
    /\ tickets[NumberOf(req)] = free_row(clock)

(* C5: an authorized sell with a number below 1 or above TOTAL_NUMBERS, or *)
(* with a name that is blank, is answered 400 and changes no row.          *)
InvalidSaleRejected ==
    [][(req'.op = "sell" /\ Authorized(req') /\ Numbered(req')
            /\ \/ NumberOf(req') < 1
               \/ NumberOf(req') > TOTAL_NUMBERS
               \/ strip(Text(req'.buyer_name)) = <<>>)
        => (resp' = BadRequest /\ tickets' = tickets)]_vars

\* the number after the last has been refused while a number was sold
InvalidSaleRejectedWitness ==
    /\ req.op = "sell"
    /\ Authorized(req)
    /\ req.number = ToString(TOTAL_NUMBERS + 1)
    /\ resp = BadRequest
    /\ \E n \in DOMAIN tickets : tickets[n].status = "sold"

----------------------------------------------------------------------------
(* Start-up, checked under SpecDeploy *)

StartUp(r) == r.op \in {"import", "main"}

(* C6: init_db on an empty table leaves exactly the rows 1..TOTAL_NUMBERS, *)
(* each free with no buyer name, no buyer contact and paid = 0.            *)
EmptyStoreSeeded ==
    [][(StartUp(req') /\ DOMAIN tickets = {})
        => /\ DOMAIN tickets' = 1 .. TOTAL_NUMBERS'
           /\ \A n \in DOMAIN tickets' : Cleared(tickets'[n])]_vars

\* every row of a full range carries the time of a start-up later than the prior
\* file's rows
EmptyStoreSeededWitness ==
    /\ req.op = "import"
    /\ TOTAL_NUMBERS = MaxTotal
    /\ clock = 1
    /\ DOMAIN tickets = 1 .. MaxTotal
    /\ \A n \in DOMAIN tickets : tickets[n] = free_row(1)

(* C7: init_db removes and modifies no row that exists, and a second run   *)
(* with the same total changes nothing.                                    *)
SeedingAdditive ==
    [][/\ StartUp(req') =>
            \A n \in DOMAIN tickets : n \in DOMAIN tickets' /\ tickets'[n] = tickets[n]
       /\ (StartUp(req) /\ StartUp(req') /\ TOTAL_NUMBERS' = TOTAL_NUMBERS) =>
            tickets' = tickets]_vars

\* after the second run a paid sold row of the prior file stands next to a row
\* the first run inserted
SeedingAdditiveWitness ==
    /\ req.op = "main"
    /\ clock = 1
    /\ \E n \in DOMAIN tickets :
           tickets[n].status = "sold" /\ tickets[n].paid = 1 /\ tickets[n].updated_at = 0
    /\ \E n \in DOMAIN tickets : tickets[n] = free_row(1)

(* C8: after init_db has run on any prior table, a row exists for every    *)
(* number of 1..TOTAL_NUMBERS.                                             *)
SeedingCovers ==
    StartUp(req) => \A n \in 1 .. TOTAL_NUMBERS : n \in DOMAIN tickets

----------------------------------------------------------------------------
(* C9: whatever requests have been served, the table holds exactly the     *)
(* rows 1..TOTAL_NUMBERS.                                                  *)
NumbersFixed == DOMAIN tickets = 1 .. TOTAL_NUMBERS

\* a release has gone through while another number is sold
NumbersFixedWitness ==
    /\ InRange(req, "unlock")
    /\ resp = Redirect("index")
    /\ before = "sold"
    /\ TOTAL_NUMBERS = MaxTotal
    /\ \E n \in DOMAIN tickets : tickets[n].status = "sold"

(* C10: the summary of the grid view adds up: total is the number of rows, *)
(* sold_count the number of sold rows, free_count the number of free rows, *)
(* and sold_count + free_count = total.                                    *)
SummaryAddsUp ==
    (req.op = "index") =>
        /\ resp.ctx.total = Cardinality(DOMAIN tickets)
        /\ resp.ctx.sold_count =
               Cardinality({n \in DOMAIN tickets : tickets[n].status = "sold"})
        /\ resp.ctx.free_count =
               Cardinality({n \in DOMAIN tickets : tickets[n].status = "free"})
        /\ resp.ctx.sold_count + resp.ctx.free_count = resp.ctx.total

\* the grid view was rendered with a sold unpaid row and a free row marked paid
SummaryAddsUpWitness ==
    /\ req.op = "index"
    /\ resp.ctx.sold_count = 1
    /\ resp.ctx.free_count = 1
    /\ \E n \in DOMAIN tickets : tickets[n].status = "sold" /\ tickets[n].paid = 0
    /\ \E n \in DOMAIN tickets : tickets[n].status = "free" /\ tickets[n].paid = 1

----------------------------------------------------------------------------
(* C11: an authorized toggle_paid naming a number of the range, sold or    *)
(* free, is answered with the redirect and stores the given paid value and *)
(* the time, leaving the row's status and buyer fields and every other row *)
(* as they were; repeated with the same value on the same number it        *)
(* changes nothing but updated_at.                                         *)
PaidStored ==
    [][InRange(req', "toggle_paid")
        => LET n == NumberOf(req') IN
           /\ resp' = Redirect("buyers")
           /\ tickets'[n].paid = paid_flag(req'.paid)
           /\ tickets'[n].status = tickets[n].status
           /\ tickets'[n].buyer_name = tickets[n].buyer_name
           /\ tickets'[n].buyer_contact = tickets[n].buyer_contact
           /\ DOMAIN tickets' = DOMAIN tickets
           /\ \A m \in DOMAIN tickets \ {n} : tickets'[m] = tickets[m]
           /\ (InRange(req, "toggle_paid") /\ NumberOf(req) = n
                   /\ paid_flag(req.paid) = paid_flag(req'.paid))
               => tickets' = [tickets EXCEPT ![n].updated_at = clock']]_vars

\* a free row has been marked paid at a later time while a sold row is unpaid
PaidStoredWitness ==
    /\ InRange(req, "toggle_paid")
    /\ resp = Redirect("buyers")
    /\ before = "free"
    /\ req.paid = "1"
    /\ tickets[NumberOf(req)].status = "free"
    /\ tickets[NumberOf(req)].paid = 1
    /\ tickets[NumberOf(req)].updated_at = 1
    /\ \E m \in DOMAIN tickets : tickets[m].status = "sold" /\ tickets[m].paid = 0

(* C12: an authorized release naming a number of the range is answered     *)
(* with the redirect whether the row is sold or free, leaves the row free  *)
(* with no buyer name, no buyer contact and paid = 0, and changes no other *)
(* row; repeated on the same number it changes nothing but updated_at.     *)
ReleaseClears ==
    [][InRange(req', "unlock")
        => LET n == NumberOf(req') IN
           /\ resp' = Redirect("index")
           /\ tickets'[n] = free_row(clock')
           /\ DOMAIN tickets' = DOMAIN tickets
           /\ \A m \in DOMAIN tickets \ {n} : tickets'[m] = tickets[m]
           /\ (InRange(req, "unlock") /\ NumberOf(req) = n)
               => tickets' = [tickets EXCEPT ![n].updated_at = clock']]_vars

\* a row that was free already has been released at a later time while another
\* row stays sold and paid
ReleaseClearsWitness ==
    /\ InRange(req, "unlock")
    /\ resp = Redirect("index")
    /\ before = "free"
    /\ tickets[NumberOf(req)] = free_row(1)
    /\ \E m \in DOMAIN tickets : tickets[m].status = "sold" /\ tickets[m].paid = 1

(* C20: every sold row has a buyer name that is neither NULL nor empty; a  *)
(* row turns from free to sold only in a sell of its number answered with  *)
(* the redirect, and from sold to free only in a release of its number.    *)
SoldHasBuyer ==
    [][/\ \A n \in DOMAIN tickets' :
              tickets'[n].status = "sold" =>
                  tickets'[n].buyer_name # None /\ tickets'[n].buyer_name # <<>>
       /\ \A n \in DOMAIN tickets \cap DOMAIN tickets' :
           /\ (tickets[n].status = "free" /\ tickets'[n].status = "sold")
                  => /\ InRange(req', "sell")
                     /\ NumberOf(req') = n
                     /\ resp' = Redirect("index")
           /\ (tickets[n].status = "sold" /\ tickets'[n].status = "free")
                  => /\ InRange(req', "unlock")
                     /\ NumberOf(req') = n]_vars

\* a number has been sold to A while another row carries the stamp of a later
\* release or payment mark
SoldHasBuyerWitness ==
    /\ InRange(req, "sell")
    /\ resp = Redirect("index")
    /\ tickets[NumberOf(req)].status = "sold"
    /\ tickets[NumberOf(req)].buyer_name = <<"A">>
    /\ \E m \in DOMAIN tickets :
           m # NumberOf(req) /\ tickets[m].status = "free" /\ tickets[m].updated_at = 1

----------------------------------------------------------------------------
(* Views, checked under SpecViews *)

\* the table with the buyer of every sold row replaced by the same texts
Anonymous(table) ==
    [n \in DOMAIN table |->
        IF table[n].status = "sold"
        THEN [table[n] EXCEPT !.buyer_name = <<"X">>, !.buyer_contact = <<"X">>]
        ELSE table[n]]

(* C14: the response to a request without the admin key for the grid, the  *)
(* printable public page or the status of a number is the response the     *)
(* same request gets on the table with every buyer name and contact of a   *)
(* sold row replaced: it does not depend on who bought.                    *)
PublicViewsAnonymous ==
    /\ (req.op = "printable_public" /\ req.args_key # ADMIN_KEY)
           => resp = printable_public_page(Anonymous(tickets), req.args_key)
    /\ (req.op = "ticket_status")
           => resp = ticket_status_json(Anonymous(tickets), NumberOf(req))
    /\ (req.op = "index" /\ req.args_key # ADMIN_KEY)
           => LET rows == select_number_status(Anonymous(tickets)) IN
              /\ resp.ctx.tickets = online_rows(rows, ONLINE_TICKETS)
              /\ resp.ctx.total = Len(rows)
              /\ resp.ctx.sold_count = sold_count_of(Anonymous(tickets), rows)
              /\ resp.ctx.free_count = Len(rows) - resp.ctx.sold_count

\* the numbers a sequence of rows lists
Listed(rows) == {rows[i].number : i \in DOMAIN rows}

(* C16: for every number n of 1..TOTAL_NUMBERS, the grid lists n exactly   *)
(* when n <= ONLINE_TICKETS, and the printable public page, the printable  *)
(* section of the admin panel and the print slips list n exactly when      *)
(* n > ONLINE_TICKETS; no view lists a number outside 1..TOTAL_NUMBERS.    *)
OnlinePrintablePartition ==
    /\ ONLINE_TICKETS <= TOTAL_NUMBERS
    /\ (req.op = "index")
           => Listed(resp.ctx.tickets) = {n \in 1 .. TOTAL_NUMBERS : n <= ONLINE_TICKETS}
    /\ (req.op = "printable_public")
           => Listed(resp.ctx.tickets) = {n \in 1 .. TOTAL_NUMBERS : n > ONLINE_TICKETS}
    /\ (req.op = "admin" /\ resp.code = 200)
           => Listed(resp.ctx.printable_rows)
                  = {n \in 1 .. TOTAL_NUMBERS : n > ONLINE_TICKETS}
    /\ (req.op = "tickets_print" /\ resp.code = 200)
           => {resp.ctx.tickets[i] : i \in DOMAIN resp.ctx.tickets}
                  = {n \in 1 .. TOTAL_NUMBERS : n > ONLINE_TICKETS}

\* the print slips of a range split in two hold the last number alone
OnlinePrintablePartitionWitness ==
    /\ req.op = "tickets_print"
    /\ resp.code = 200
    /\ TOTAL_NUMBERS = MaxTotal
    /\ 0 < ONLINE_TICKETS
    /\ ONLINE_TICKETS = MaxTotal - 1
    /\ resp.ctx.tickets = <<MaxTotal>>

----------------------------------------------------------------------------
(* The buyers report, checked under SpecReport *)

\* the request was answered with the buyers list or the PDF
Reported(r, response) == r.op \in {"buyers", "buyers_pdf"} /\ response.code = 200

\* the rows of the report in the response
ReportRows(r, response) ==
    IF r.op = "buyers" THEN response.ctx.buyers ELSE response.ctx.pdf

\* the rows are the sold rows of the table, each once
ExactlySold(rows, table) ==
    /\ Len(rows) = Cardinality({n \in DOMAIN table : table[n].status = "sold"})
    /\ \A n \in DOMAIN table :
           table[n].status = "sold" => \E i \in DOMAIN rows : rows[i].number = n
    /\ \A i \in DOMAIN rows :
           /\ rows[i].number \in DOMAIN table
           /\ table[rows[i].number].status = "sold"

(* C15 as stated: the report holds exactly the sold rows, each once, and a *)
(* row mutated later comes before a row mutated earlier: the sold row that *)
(* the request just before the report sold or marked comes first.          *)
ReportLatestFirst ==
    [][Reported(req', resp')
        => LET rows == ReportRows(req', resp') IN
           /\ ExactlySold(rows, tickets)
           /\ ((InRange(req, "sell") \/ InRange(req, "toggle_paid"))
                   /\ resp.code = 302
                   /\ tickets[NumberOf(req)].status = "sold")
               => rows[1].number = NumberOf(req)]_vars

(* C15 amended: the report holds exactly the sold rows, each once with its *)
(* stored time, in descending order of updated_at; rows of equal           *)
(* updated_at come in any order.                                           *)
ReportByStamp ==
    Reported(req, resp)
        => LET rows == ReportRows(req, resp) IN
           /\ ExactlySold(rows, tickets)
           /\ \A i \in DOMAIN rows :
                  rows[i].updated_at = tickets[rows[i].number].updated_at
           /\ \A i, j \in DOMAIN rows :
                  i < j => rows[i].updated_at >= rows[j].updated_at

\* the PDF lists a row stamped later before a row stamped earlier while the
\* earlier row has the smaller number
ReportByStampWitness ==
    /\ Reported(req, resp)
    /\ req.op = "buyers_pdf"
    /\ Len(resp.ctx.pdf) = 2
    /\ resp.ctx.pdf[1].updated_at = 1
    /\ resp.ctx.pdf[2].updated_at = 0
    /\ resp.ctx.pdf[2].number < resp.ctx.pdf[1].number

----------------------------------------------------------------------------
(* Every route, checked under SpecServe *)

\* the routes that call _require_key
Guarded ==
    {"sell", "unlock", "toggle_paid", "admin", "buyers", "buyers_pdf", "tickets_print"}

\* the key a request presents: the query parameter, the form field when the
\* query has none
Presented(r) ==
    IF r.args_key # NoValue /\ r.args_key # "" THEN r.args_key ELSE r.form_key

(* C13: a request to sell, release or toggle_paid, or for the admin panel, *)
(* the buyers list, the buyers PDF or the print slips, that presents a key *)
(* other than ADMIN_KEY is answered 403 and changes no row.                *)
KeyGuards ==
    [][(req'.op \in Guarded /\ Presented(req') # ADMIN_KEY)
        => (resp' = Forbidden /\ tickets' = tickets)]_vars

\* a sale carrying the right key in the form and a wrong one in the query has
\* been refused while a row is sold
KeyGuardsWitness ==
    /\ req.op = "sell"
    /\ req.args_key = "errada"
    /\ req.form_key = ADMIN_KEY
    /\ resp = Forbidden
    /\ \E n \in DOMAIN tickets : tickets[n].status = "sold"

(* C17: an authorized sell, release or toggle_paid naming a number the     *)
(* table has no row for is answered 404 and changes no row.                *)
MissingIsNotFound ==
    [][(req'.op \in {"sell", "unlock", "toggle_paid"} /\ Authorized(req')
            /\ Numbered(req') /\ NumberOf(req') \notin DOMAIN tickets)
        => (resp' = NotFound /\ tickets' = tickets)]_vars

\* the last event of a request on its connection
LastEvent(events) == events[Len(events)]

(* C18: after every request no connection is open: a request that opened   *)
(* one closed it last of all; a sell answered 404 or with the already-sold *)
(* 400 rolled its transaction back, committed nothing and changed no row.  *)
ConnectionsScoped ==
    [][/\ conns'.open = 0
       /\ conns'.log # <<>> =>
              (Head(conns'.log) = "connect" /\ LastEvent(conns'.log) = "close")
       /\ (req'.op = "sell" /\ (resp' = NotFound \/ resp' = AlreadySold))
              => /\ conns'.log = <<"connect", "select", "rollback", "close">>
                 /\ tickets' = tickets]_vars

\* a sale of a number without a row was answered 404 on a connection that was
\* rolled back and closed
ConnectionsScopedWitness ==
    /\ req.op = "sell"
    /\ resp = NotFound
    /\ before = NoRow
    /\ NumberOf(req) \in 1 .. TOTAL_NUMBERS
    /\ NumberOf(req) \notin DOMAIN tickets
    /\ conns.open = 0
    /\ "rollback" \in {conns.log[i] : i \in DOMAIN conns.log}

----------------------------------------------------------------------------
(* Sales handled at the same time, checked under SpecRace *)

\* the sale a thread has read the row for ends in this step
Finishes(s) == s \in sells /\ s \notin sells'

(* C19: of the sales of one free number handled at the same time at most   *)
(* one is answered with the redirect and the others with the already-sold  *)
(* 400: a sale that ends while the row is sold is refused and leaves the   *)
(* buyer stored in the row as it is.                                       *)
NoDoubleSale ==
    [][\A s \in sells :
          (Finishes(s) /\ s.number \in DOMAIN tickets
                /\ tickets[s.number].status = "sold")
              => (resp' = AlreadySold /\ tickets' = tickets)]_vars

====
